---- MODULE Spec2Model ----
(***************************************************************************)
(* near-sdk  random.rs : SecureRng, the seed derivation from the host      *)
(* context, the range adapters and the sampling helpers of the Rng trait.  *)
(*                                                                         *)
(* Byte strings are sequences of integers 0..255.  SHA-256 is modelled as  *)
(* a collision-free function: the digest of m is m itself between two      *)
(* markers that are no bytes (-1, -2), so that two digests are equal       *)
(* exactly when the hashed byte strings are equal.  The ChaCha20 stream    *)
(* is a deterministic function of (seed, word position); its 32-bit word   *)
(* is scaled to WordBits bits so that the widening multiplication of the   *)
(* range sampler stays inside the integers of the model checker.           *)
(***************************************************************************)
EXTENDS Integers, Sequences, FiniteSets, TLC

(***************************************************************************)
(* Bounds of the model.                                                    *)
(***************************************************************************)
MaxLen == 3      \* longest slice handed to shuffle / choice / sample_multiple
MaxPos == 2      \* a draw starts only while fewer than MaxPos words were used
MaxTx == 2       \* transactions of the modelled run

(***************************************************************************)
(* Widths.  u8 keeps its width; the 32-bit stream word is WordBits wide.   *)
(***************************************************************************)
WordBits == 8

Pow2(n) == 2 ^ n

Min(a, b) == IF a < b THEN a ELSE b

(***************************************************************************)
(* Host context (near_sdk::env, set by testing_env! in the tests).         *)
(***************************************************************************)
Accounts == { <<97, 98>>, <<97, 98, 99>>, <<99, 100, 101>>, <<100, 101>> }

VrfSeeds == { [i \in 1..32 |-> 42], [i \in 1..32 |-> 7] }

Timestamps == {0, 300}

Gases == {5, 261}

Extras == { <<>>, <<116, 101>> }

Contexts ==
    [ random_seed : VrfSeeds,
      current_account_id : Accounts,
      predecessor_account_id : Accounts,
      block_timestamp : Timestamps,
      prepaid_gas : Gases ]

\* u64::to_le_bytes : eight bytes, least significant first (the values of the
\* model are below 2^24, so the five high bytes are zero)
to_le_bytes(n) ==
    [i \in 1..8 |-> IF i <= 3 THEN (n \div Pow2(8 * (i - 1))) % 256 ELSE 0]

\* AccountId::as_bytes
as_bytes(account) == account

\* Sha256::new() ... update(..) ... finalize() over the concatenated updates
Sha256(m) == <<-1>> \o m \o <<-2>>

\* b"near-sdk-secure-rng-v1"
DomainTag ==
    << 110, 101, 97, 114, 45, 115, 100, 107, 45, 115, 101, 99, 117, 114, 101,
       45, 114, 110, 103, 45, 118, 49 >>

get_block_index(c) == c.block_timestamp

\* variant: the predecessor account is left out of the transaction entropy
get_transaction_entropy_no_caller(c) ==
    Sha256( as_bytes(c.current_account_id)
            \o to_le_bytes(get_block_index(c))
            \o to_le_bytes(c.prepaid_gas) )

\* SecureRng::get_transaction_entropy
get_transaction_entropy(c) ==
    Sha256( as_bytes(c.current_account_id)
            \o as_bytes(c.predecessor_account_id)
            \o to_le_bytes(get_block_index(c))
            \o to_le_bytes(c.prepaid_gas) )

generate_seed_with_entropy(c, additional_entropy) ==
    Sha256( c.random_seed \o additional_entropy \o DomainTag )

generate_secure_seed(c) ==
    generate_seed_with_entropy(c, get_transaction_entropy(c))

(***************************************************************************)
(* Stream generator core: ChaCha20Rng.  The state is the key (the seed)    *)
(* and the word position; word k of the stream is a fixed function of the  *)
(* seed and k.                                                             *)
(***************************************************************************)
\* the key schedule: the seed's elements, weighted and mixed by halves
RECURSIVE KeyMix(_, _, _)
KeyMix(seed, lo, hi) ==
    IF lo > hi THEN 0
    ELSE IF lo = hi THEN ((2 * lo + 1) * (seed[lo] + 3)) % Pow2(WordBits)
    ELSE LET mid == (lo + hi) \div 2
         IN  (5 * KeyMix(seed, lo, mid) + KeyMix(seed, mid + 1, hi)) % Pow2(WordBits)

\* ChaCha20Rng::from_seed : the key is set up once, the stream starts at word 0
from_seed(seed) == [seed |-> seed, key |-> KeyMix(seed, 1, Len(seed)), pos |-> 0]

Word(inner) == (inner.key + inner.pos * 89) % Pow2(WordBits)

Advance(inner, n) == [inner EXCEPT !.pos = @ + n]

\* RngCore::next_u32
next_u32(inner) == [val |-> Word(inner), inner |-> Advance(inner, 1)]

\* RngCore::next_u64 : two consecutive words, low word first
next_u64(inner) ==
    [ val |-> Word(inner) + Pow2(WordBits) * Word(Advance(inner, 1)),
      inner |-> Advance(inner, 2) ]

(***************************************************************************)
(* Integer types of the range adapters.  bits: width of the type; large:   *)
(* width of the unsigned type the sampler multiplies in (u32 for u8, u16,  *)
(* u32 and i32, usize for usize, u64 for u64 and i64); exact: the rejection *)
(* zone is computed exactly (types of at most 16 bits).                    *)
(***************************************************************************)
Types == {"u8", "u16", "u32", "u64", "usize", "i32", "i64"}

Signed(T) == T \in {"i32", "i64"}

Bits(T) == IF T \in {"u64", "i64"} THEN 2 * WordBits ELSE WordBits

Large(T) == Bits(T)

ExactZone(T) == T \in {"u8", "u16"}

MinOf(T) == IF Signed(T) THEN 0 - Pow2(Bits(T) - 1) ELSE 0

MaxOf(T) == IF Signed(T) THEN Pow2(Bits(T) - 1) - 1 ELSE Pow2(Bits(T)) - 1

\* two's complement wrap-around of x into the type T
Wrap(T, x) == ((x - MinOf(T)) % Pow2(Bits(T))) + MinOf(T)

\* `as $unsigned` of a value of T
AsUnsigned(T, x) == x % Pow2(Bits(T))

\* Standard.sample::<$u_large> : one word, or two for a 64-bit type
gen_large(T, inner) == IF Large(T) > WordBits THEN next_u64(inner) ELSE next_u32(inner)

\* v.wmul(range) : the high and the low half of the double-width product
wmul(T, v, range) ==
    IF Large(T) <= WordBits
    THEN [hi |-> (v * range) \div Pow2(WordBits), lo |-> (v * range) % Pow2(WordBits)]
    ELSE LET W   == Pow2(WordBits)
             p0  == (v % W) * (range % W)
             mid == (v % W) * (range \div W) + (v \div W) * (range % W) + (p0 \div W)
         IN  [ hi |-> (v \div W) * (range \div W) + (mid \div W),
               lo |-> (mid % W) * W + (p0 % W) ]

\* range << range.leading_zeros()
RECURSIVE ShiftToTop(_, _)
ShiftToTop(T, range) ==
    IF range >= Pow2(Large(T) - 1) THEN range ELSE ShiftToTop(T, 2 * range)

Zone(T, range) ==
    IF ExactZone(T)
    THEN (Pow2(Large(T)) - 1) - ((Pow2(Large(T)) - 1 - range + 1) % range)
    ELSE ShiftToTop(T, range) - 1

\* loop { v = rng.gen(); (hi, lo) = v.wmul(range); if lo <= zone { return } }
RECURSIVE SampleLoop(_, _, _, _, _)
SampleLoop(T, inner, low, range, zone) ==
    LET g == gen_large(T, inner)
        m == wmul(T, g.val, range)
    IN  IF m.lo <= zone
        THEN [ok |-> TRUE, val |-> Wrap(T, low + m.hi), inner |-> g.inner]
        ELSE SampleLoop(T, g.inner, low, range, zone)

\* UniformInt::sample_single_inclusive(low, high)
sample_single_inclusive(T, inner, low, high) ==
    LET range == AsUnsigned(T, high - low + 1)
    IN  IF range = 0
        THEN LET g == gen_large(T, inner)
             IN  [ok |-> TRUE, val |-> Wrap(T, g.val), inner |-> g.inner]
        ELSE SampleLoop(T, inner, low, range, Zone(T, range))

\* Rng::gen_range(low..high) : assert!(!range.is_empty()), then sample
gen_range(T, inner, low, high) ==
    IF ~(low < high)
    THEN [ok |-> FALSE, val |-> 0, inner |-> inner]
    ELSE sample_single_inclusive(T, inner, low, high - 1)

\* variant: the upper bound is taken as inclusive
int_range_inclusive(T, inner, low, high) == gen_range(T, inner, low, high + 1)

\* variant: an empty range is clamped to its lower bound instead of rejected
int_range_clamped(T, inner, low, high) ==
    IF high <= low
    THEN [ok |-> TRUE, val |-> low, inner |-> inner]
    ELSE gen_range(T, inner, low, high)

\* SecureRng::u8 / u16 / u32 / u64 / usize / i32 / i64
int_range(T, inner, low, high) == gen_range(T, inner, low, high)

\* SecureRng::bool : the top bit of one word
bool(inner) ==
    LET g == next_u32(inner)
    IN  [ok |-> TRUE, val |-> IF g.val >= Pow2(WordBits - 1) THEN 1 ELSE 0, inner |-> g.inner]

(***************************************************************************)
(* Sampling algorithms.  A slice is a sequence; the code's index i is the  *)
(* position i + 1 of the sequence.                                         *)
(***************************************************************************)
\* variant: the element at j is copied over the one at i, not exchanged
swap_overwrite(slice, i, j) == [slice EXCEPT ![i + 1] = slice[j + 1]]

\* <[T]>::swap(i, j)
swap(slice, i, j) == [slice EXCEPT ![i + 1] = slice[j + 1], ![j + 1] = slice[i + 1]]

\* rand::seq::gen_index(rng, ubound) : rng.gen_range(0..ubound as u32)
gen_index(inner, ubound) == gen_range("u32", inner, 0, ubound)

\* SliceRandom::shuffle : for i in (1..len).rev() { swap(i, gen_index(i + 1)) }
RECURSIVE ShuffleFrom(_, _, _)
ShuffleFrom(inner, slice, i) ==
    IF i < 1
    THEN [ok |-> TRUE, out |-> slice, inner |-> inner]
    ELSE LET j == gen_index(inner, i + 1)
         IN  ShuffleFrom(j.inner, swap(slice, i, j.val), i - 1)

\* SecureRng::shuffle
shuffle(inner, slice) == ShuffleFrom(inner, slice, Len(slice) - 1)

\* variant: no guard for the empty slice
choice_unchecked(inner, slice) ==
    LET r == gen_range("usize", inner, 0, Len(slice))
    IN  [ ok |-> r.ok, some |-> r.ok, index |-> r.val,
          val |-> IF r.ok THEN slice[r.val + 1] ELSE 0, inner |-> r.inner ]

\* SecureRng::choice : None for the empty slice, else slice[usize(0..len)];
\* indexing a slice is bounds-checked and panics outside 0..len
choice(inner, slice) ==
    IF Len(slice) = 0
    THEN [ok |-> TRUE, some |-> FALSE, index |-> 0, val |-> 0, inner |-> inner]
    ELSE LET r == int_range("usize", inner, 0, Len(slice))
             in_bounds == r.ok /\ r.val < Len(slice)
         IN  [ ok |-> in_bounds, some |-> in_bounds, index |-> r.val,
               val |-> IF in_bounds THEN slice[r.val + 1] ELSE 0, inner |-> r.inner ]

\* <SecureRng as Rng>::flip_coin
flip_coin(inner) == bool(inner)

\* <SecureRng as Rng>::roll_die.  sides + 1 is computed in u8: with overflow
\* checks the addition panics, without them it wraps.
roll_die(inner, sides, overflow_checks) ==
    IF sides = 0
    THEN [ok |-> TRUE, val |-> 0, inner |-> inner]
    ELSE IF sides + 1 > MaxOf("u8") /\ overflow_checks
         THEN [ok |-> FALSE, val |-> 0, inner |-> inner]
         ELSE int_range("u8", inner, 1, Wrap("u8", sides + 1))

\* <SecureRng as Rng>::percentage
percentage(inner) == int_range("u8", inner, 0, 101)

\* (0..slice.len()).collect()
Indices(n) == [i \in 1..n |-> i - 1]

\* variant: every pick is drawn from the whole slice (with replacement)
sample_multiple_replacing(inner, slice, count) ==
    IF Len(slice) < count
    THEN [ok |-> TRUE, out |-> Indices(Len(slice)), inner |-> inner]
    ELSE [ ok |-> TRUE,
           out |-> [k \in 1..count |-> gen_index(Advance(inner, k - 1), Len(slice)).val],
           inner |-> Advance(inner, count) ]

\* <SecureRng as Rng>::sample_multiple : the indices of the referenced elements
sample_multiple(inner, slice, count) ==
    IF Len(slice) < count
    THEN [ok |-> TRUE, out |-> Indices(Len(slice)), inner |-> inner]
    ELSE LET sh == shuffle(inner, Indices(Len(slice)))
         IN  [ok |-> TRUE, out |-> SubSeq(sh.out, 1, count), inner |-> sh.inner]

(***************************************************************************)
(* SecureRng: construction and reseeding.                                  *)
(***************************************************************************)
\* SecureRng::new
new(c) == from_seed(generate_secure_seed(c))

\* SecureRng::with_entropy
with_entropy(c, additional_entropy) ==
    from_seed(generate_seed_with_entropy(c, additional_entropy))

\* variant: the new key is installed but the stream position is kept
reseed_keep_pos(inner, c) ==
    [from_seed(generate_secure_seed(c)) EXCEPT !.pos = inner.pos]

\* SecureRng::reseed : self.inner = ChaCha20Rng::from_seed(generate_secure_seed())
reseed(inner, c) == from_seed(generate_secure_seed(c))

(***************************************************************************)
(* State.                                                                  *)
(*   ctx  : the host context the code reads through env                    *)
(*   tx   : the number of the running transaction (not visible to code)    *)
(*   rng  : the SecureRng value: its ChaCha20 state, and where it was last *)
(*          seeded (origin, history only)                                  *)
(*   last : the call that has just run, its inputs and its outcome, until  *)
(*          it returns                                                     *)
(*   contract : the persistent state of the lottery example contract       *)
(***************************************************************************)
VARIABLES ctx, tx, rng, last, contract

vars == <<ctx, tx, rng, last, contract>>

\* VMContextBuilder::new().random_seed([42; 32]).build()
InitContext ==
    [ random_seed |-> [i \in 1..32 |-> 42],
      current_account_id |-> <<97, 98>>,
      predecessor_account_id |-> <<99, 100, 101>>,
      block_timestamp |-> 0,
      prepaid_gas |-> 261 ]

\* origin: how the generator was last seeded (kind, the context and the extra
\* entropy read, the transaction) and, for a reseed, the state it replaced
\* (from: the transaction that state was seeded in, drawn: it had given output)
NoOrigin ==
    [ kind |-> "none", ctx |-> InitContext, extra |-> <<>>, tx |-> 0,
      from |-> 0, drawn |-> FALSE ]

Origin(kind, extra) ==
    [ kind |-> kind, ctx |-> ctx, extra |-> extra, tx |-> tx,
      from |-> IF kind = "reseed" THEN rng.origin.tx ELSE 0,
      drawn |-> kind = "reseed" /\ rng.inner.pos > 0 ]

NoRng == [live |-> FALSE, inner |-> from_seed(<<>>), origin |-> NoOrigin]

\* LotteryContract::new : no participants, no winner (None is the empty
\* sequence, Some(name) the sequence of that one name)
LotteryContract_new == [participants |-> <<>>, winner |-> <<>>]

NoLast ==
    [ op |-> "none", ty |-> "", low |-> 0, high |-> 0, sides |-> 0, checks |-> FALSE,
      slice |-> <<>>, count |-> 0, index |-> 0, before |-> 0,
      ok |-> TRUE, some |-> FALSE, val |-> 0, out |-> <<>> ]

Init ==
    /\ ctx = InitContext
    /\ tx = 1
    /\ rng = NoRng
    /\ last = NoLast
    /\ contract = LotteryContract_new

(***************************************************************************)
(* Inputs of the operations.                                               *)
(***************************************************************************)
Callers == { <<99, 100, 101>>, <<100, 101>> }

LowsOf(T) == {MinOf(T), 1, 5}

HighsOf(T) == {MinOf(T), 5, 7, MaxOf(T)}

Sides == {0, 1, 6, 254, 255}

Elems == {1, 2}

Slices == UNION { [1..n -> Elems] : n \in 0..MaxLen }

Counts == 0..(MaxLen + 1)

\* Calls are synchronous: the next one starts when the last has returned.
Idle == last.op = "none"

\* A draw starts while fewer than MaxPos words were used.
CanDraw == Idle /\ rng.live /\ rng.inner.pos < MaxPos

(***************************************************************************)
(* The host moves on: another transaction of the same block, or a new      *)
(* block (testing_env! with another context).                              *)
(***************************************************************************)
NextTransaction ==
    /\ Idle
    /\ tx < MaxTx
    /\ \E p \in Callers : ctx' = [ctx EXCEPT !.predecessor_account_id = p]
    /\ tx' = tx + 1
    /\ UNCHANGED <<rng, last, contract>>

NextBlock ==
    /\ Idle
    /\ tx < MaxTx
    /\ \E s \in VrfSeeds, t \in Timestamps :
          /\ t > ctx.block_timestamp
          /\ ctx' = [ctx EXCEPT !.random_seed = s, !.block_timestamp = t]
    /\ tx' = tx + 1
    /\ UNCHANGED <<rng, last, contract>>

(***************************************************************************)
(* Seeding.                                                                *)
(***************************************************************************)
New ==
    /\ Idle
    /\ rng' = [ live |-> TRUE, inner |-> new(ctx),
                origin |-> Origin("new", <<>>) ]
    /\ last' = [NoLast EXCEPT !.op = "new"]
    /\ UNCHANGED <<ctx, tx, contract>>

WithEntropy ==
    /\ Idle
    /\ \E e \in Extras :
          rng' = [ live |-> TRUE, inner |-> with_entropy(ctx, e),
                   origin |-> Origin("with_entropy", e) ]
    /\ last' = [NoLast EXCEPT !.op = "with_entropy"]
    /\ UNCHANGED <<ctx, tx, contract>>

Reseed ==
    /\ Idle
    /\ rng.live
    /\ rng' = [ live |-> TRUE, inner |-> reseed(rng.inner, ctx),
                origin |-> Origin("reseed", <<>>) ]
    /\ last' = [NoLast EXCEPT !.op = "reseed"]
    /\ UNCHANGED <<ctx, tx, contract>>

(***************************************************************************)
(* Draws.  Each records its inputs and its outcome in last; a panic        *)
(* (ok = FALSE) returns no value.                                          *)
(***************************************************************************)
Drawn(r, l) ==
    /\ rng' = [rng EXCEPT !.inner = r.inner]
    /\ last' = [l EXCEPT !.before = rng.inner.pos, !.ok = r.ok]
    /\ UNCHANGED <<ctx, tx, contract>>

\* The call returns: its result has been handed to the caller.
Return ==
    /\ ~Idle
    /\ last' = NoLast
    /\ UNCHANGED <<ctx, tx, rng, contract>>

NextU32 ==
    /\ CanDraw
    /\ LET r == next_u32(rng.inner)
       IN  Drawn([ok |-> TRUE, inner |-> r.inner],
                 [NoLast EXCEPT !.op = "next_u32", !.val = r.val])

Bool ==
    /\ CanDraw
    /\ LET r == bool(rng.inner)
       IN  Drawn(r, [NoLast EXCEPT !.op = "bool", !.val = r.val])

FlipCoin ==
    /\ CanDraw
    /\ LET r == flip_coin(rng.inner)
       IN  Drawn(r, [NoLast EXCEPT !.op = "flip_coin", !.val = r.val])

IntRange(T) ==
    /\ CanDraw
    /\ \E low \in LowsOf(T), high \in HighsOf(T) :
          LET r == int_range(T, rng.inner, low, high)
          IN  Drawn(r, [NoLast EXCEPT !.op = "range", !.ty = T, !.low = low,
                                      !.high = high, !.val = r.val])

U8 == IntRange("u8")

U16 == IntRange("u16")

U32 == IntRange("u32")

U64 == IntRange("u64")

Usize == IntRange("usize")

I32 == IntRange("i32")

I64 == IntRange("i64")

Shuffle ==
    /\ CanDraw
    /\ \E slice \in Slices :
          LET r == shuffle(rng.inner, slice)
          IN  Drawn(r, [NoLast EXCEPT !.op = "shuffle", !.slice = slice, !.out = r.out])

Choice ==
    /\ CanDraw
    /\ \E slice \in Slices :
          LET r == choice(rng.inner, slice)
          IN  Drawn(r, [NoLast EXCEPT !.op = "choice", !.slice = slice,
                                      !.some = r.some, !.index = r.index, !.val = r.val])

RollDie ==
    /\ CanDraw
    /\ \E sides \in Sides, overflow_checks \in BOOLEAN :
          LET r == roll_die(rng.inner, sides, overflow_checks)
          IN  Drawn(r, [NoLast EXCEPT !.op = "roll_die", !.sides = sides,
                                      !.checks = overflow_checks, !.val = r.val])

Percentage ==
    /\ CanDraw
    /\ LET r == percentage(rng.inner)
       IN  Drawn(r, [NoLast EXCEPT !.op = "percentage", !.val = r.val])

SampleMultiple ==
    /\ CanDraw
    /\ \E slice \in Slices, count \in Counts :
          LET r == sample_multiple(rng.inner, slice, count)
          IN  Drawn(r, [NoLast EXCEPT !.op = "sample_multiple", !.slice = slice,
                                      !.count = count, !.out = r.out])

Next ==
    \/ NextTransaction
    \/ NextBlock
    \/ New
    \/ WithEntropy
    \/ Reseed
    \/ NextU32
    \/ Bool
    \/ FlipCoin
    \/ U8
    \/ U16
    \/ U32
    \/ U64
    \/ Usize
    \/ I32
    \/ I64
    \/ Shuffle
    \/ Choice
    \/ RollDie
    \/ Percentage
    \/ SampleMultiple
    \/ Return

Spec == Init /\ [][Next]_vars

(***************************************************************************)
(* The lottery example contract (examples/lottery).  Every method that     *)
(* draws makes its own SecureRng::new() from the running context and drops *)
(* it when it returns; participants and winner persist between calls.      *)
(***************************************************************************)
Names == {"Alice", "Bob"}

\* LotteryContract::enter_lottery : self.participants.push(name)
enter_lottery(c, name) == [c EXCEPT !.participants = Append(@, name)]

\* LotteryContract::pick_winner : None for no participants, else the
\* participant at rng.usize(0..len), kept in self.winner (participants.get
\* gives None for an index outside 0..len)
pick_winner(c, hc) ==
    IF Len(c.participants) = 0
    THEN [contract |-> c, ret |-> <<>>]
    ELSE LET winner_index == int_range("usize", new(hc), 0, Len(c.participants))
             winner == IF winner_index.val < Len(c.participants)
                       THEN <<c.participants[winner_index.val + 1]>>
                       ELSE <<>>
         IN  [contract |-> [c EXCEPT !.winner = winner], ret |-> winner]

\* LotteryContract::roll_dice
roll_dice(hc) == roll_die(new(hc), 6, TRUE)

\* LotteryContract::flip_coin
LotteryContract_flip_coin(hc) == flip_coin(new(hc))

\* LotteryContract::random_percentage
random_percentage(hc) == percentage(new(hc))

\* LotteryContract::get_winner
get_winner(c) == c.winner

\* LotteryContract::get_participant_count
get_participant_count(c) == Len(c.participants)

\* LotteryContract::reset_lottery
reset_lottery(c) == [c EXCEPT !.participants = <<>>, !.winner = <<>>]

\* LotteryContract::draw_multiple_winners : the names behind the references
\* that sample_multiple picked, cloned in the order picked
draw_multiple_winners(c, hc, count) ==
    IF Len(c.participants) = 0
    THEN <<>>
    ELSE LET winners == sample_multiple(new(hc), c.participants, count)
         IN  [k \in DOMAIN winners.out |-> c.participants[winners.out[k] + 1]]

\* LotteryContract::shuffle_participants
shuffle_participants(c, hc) ==
    [c EXCEPT !.participants = shuffle(new(hc), c.participants).out]

\* A contract call: the state it leaves and what it hands back.
Called(c, l) ==
    /\ contract' = c
    /\ last' = [l EXCEPT !.slice = contract.participants]
    /\ UNCHANGED <<ctx, tx, rng>>

EnterLottery ==
    /\ Idle
    /\ Len(contract.participants) < MaxLen
    /\ \E name \in Names :
          Called(enter_lottery(contract, name), [NoLast EXCEPT !.op = "enter_lottery"])

PickWinner ==
    /\ Idle
    /\ LET r == pick_winner(contract, ctx)
       IN  Called(r.contract, [NoLast EXCEPT !.op = "pick_winner",
                                            !.some = r.ret # <<>>, !.out = r.ret])

RollDice ==
    /\ Idle
    /\ Called(contract, [NoLast EXCEPT !.op = "roll_dice", !.val = roll_dice(ctx).val])

LotteryFlipCoin ==
    /\ Idle
    /\ Called(contract, [NoLast EXCEPT !.op = "flip_coin",
                                       !.val = LotteryContract_flip_coin(ctx).val])

RandomPercentage ==
    /\ Idle
    /\ Called(contract, [NoLast EXCEPT !.op = "random_percentage",
                                       !.val = random_percentage(ctx).val])

ResetLottery ==
    /\ Idle
    /\ Called(reset_lottery(contract), [NoLast EXCEPT !.op = "reset_lottery"])

DrawMultipleWinners ==
    /\ Idle
    /\ \E count \in Counts :
          Called(contract, [NoLast EXCEPT !.op = "draw_multiple_winners", !.count = count,
                                         !.out = draw_multiple_winners(contract, ctx, count)])

ShuffleParticipants ==
    /\ Idle
    /\ Called(shuffle_participants(contract, ctx),
              [NoLast EXCEPT !.op = "shuffle_participants"])

LotteryNext ==
    \/ NextTransaction
    \/ NextBlock
    \/ EnterLottery
    \/ PickWinner
    \/ RollDice
    \/ LotteryFlipCoin
    \/ RandomPercentage
    \/ ResetLottery
    \/ DrawMultipleWinners
    \/ ShuffleParticipants
    \/ Return

LotterySpec == Init /\ [][LotteryNext]_vars

(***************************************************************************)
(* The transaction entropy on its own: testing_env! installs a context,    *)
(* get_transaction_entropy is computed in it, and last.out keeps the       *)
(* digest until the next context is installed.                             *)
(***************************************************************************)
GetTransactionEntropy ==
    /\ \E c \in Contexts :
          /\ ctx' = c
          /\ last' = [NoLast EXCEPT !.op = "get_transaction_entropy",
                                    !.out = get_transaction_entropy(c)]
    /\ UNCHANGED <<tx, rng, contract>>

EntropyNext == GetTransactionEntropy

EntropySpec == Init /\ [][EntropyNext]_vars

(***************************************************************************)
(* Properties.                                                             *)
(***************************************************************************)
Count(seq, e) == Cardinality({i \in DOMAIN seq : seq[i] = e})

Range(seq) == {seq[i] : i \in DOMAIN seq}

\* C1: a range adapter called with low < high returns a value v with
\* low <= v < high, whatever was drawn from the generator before.
C1_RangeWithinBounds ==
    (last.op = "range" /\ last.low < last.high)
        => (last.ok /\ last.low <= last.val /\ last.val < last.high)

C1_Witness ==
    /\ last.op = "range" /\ last.ty = "i64" /\ last.before > 0
    /\ last.low < 0 /\ last.high = MaxOf("i64")
    /\ last.ok /\ last.val > last.low

\* C2: a range adapter called with high <= low returns no value: the call
\* fails (panics), the bounds are not clamped, the generator is not advanced.
C2_EmptyRangeRejected ==
    (last.op = "range" /\ last.high <= last.low)
        => (~last.ok /\ rng.inner.pos = last.before)

C2_Witness ==
    /\ last.op = "range" /\ last.low = 5 /\ last.high = 5 /\ ~last.ok

\* C3: roll_die(sides) never fails: 0 for sides = 0, else 1 <= v <= sides.
C3_RollDieNeverFails ==
    last.op = "roll_die"
        => /\ last.ok
           /\ last.sides = 0 => last.val = 0
           /\ last.sides > 0 => (1 <= last.val /\ last.val <= last.sides)

\* C4: shuffle keeps the length and the multiset of the elements.
C4_ShuffleIsPermutation ==
    last.op = "shuffle"
        => /\ last.ok
           /\ Len(last.out) = Len(last.slice)
           /\ \A e \in Elems : Count(last.out, e) = Count(last.slice, e)

C4_Witness ==
    /\ last.op = "shuffle" /\ Len(last.slice) = MaxLen
    /\ Count(last.slice, 1) = 2
    /\ last.out # last.slice

\* C5: sample_multiple returns min(count, len) references to valid indices,
\* none of them twice; with count = len every index is referenced.
C5_SampleWithoutReplacement ==
    last.op = "sample_multiple"
        => /\ last.ok
           /\ Len(last.out) = Min(last.count, Len(last.slice))
           /\ \A k \in DOMAIN last.out : last.out[k] \in 0..(Len(last.slice) - 1)
           /\ \A k, m \in DOMAIN last.out : last.out[k] = last.out[m] => k = m
           /\ last.count = Len(last.slice)
                 => Range(last.out) = 0..(Len(last.slice) - 1)

C5_Witness ==
    /\ last.op = "sample_multiple" /\ Len(last.slice) = MaxLen
    /\ last.count = MaxLen /\ last.out # Indices(MaxLen)

\* C6: choice returns no value exactly for the empty slice and never fails;
\* otherwise it returns the element at an index in [0, len).
C6_ChoiceFromSlice ==
    last.op = "choice"
        => /\ last.ok
           /\ last.some <=> last.slice # <<>>
           /\ last.some => /\ last.index \in 0..(Len(last.slice) - 1)
                           /\ last.val = last.slice[last.index + 1]

C6_Witness ==
    /\ last.op = "choice" /\ Len(last.slice) = MaxLen
    /\ last.some /\ last.index > 0 /\ last.before > 0

\* the seed the code derives from the inputs recorded at the last seeding
SeedFor(o) ==
    IF o.kind = "with_entropy"
    THEN generate_seed_with_entropy(o.ctx, o.extra)
    ELSE generate_secure_seed(o.ctx)

\* a generator freshly built from those inputs, after n words
Fresh(o, n) == Advance(from_seed(SeedFor(o)), n)

\* what the last operation returned and the word position it left
Observed ==
    [ ok |-> last.ok, val |-> last.val, out |-> last.out, some |-> last.some,
      index |-> last.index, pos |-> rng.inner.pos ]

\* the outcome of the operation l on the generator state inner
Outcome(l, inner) ==
    LET base == [ok |-> TRUE, val |-> 0, out |-> <<>>, some |-> FALSE, index |-> 0, pos |-> 0]
    IN  CASE l.op = "next_u32" ->
               LET r == next_u32(inner)
               IN  [base EXCEPT !.val = r.val, !.pos = r.inner.pos]
          [] l.op = "bool" ->
               LET r == bool(inner)
               IN  [base EXCEPT !.val = r.val, !.pos = r.inner.pos]
          [] l.op = "flip_coin" ->
               LET r == flip_coin(inner)
               IN  [base EXCEPT !.val = r.val, !.pos = r.inner.pos]
          [] l.op = "range" ->
               LET r == int_range(l.ty, inner, l.low, l.high)
               IN  [base EXCEPT !.ok = r.ok, !.val = r.val, !.pos = r.inner.pos]
          [] l.op = "shuffle" ->
               LET r == shuffle(inner, l.slice)
               IN  [base EXCEPT !.out = r.out, !.pos = r.inner.pos]
          [] l.op = "choice" ->
               LET r == choice(inner, l.slice)
               IN  [base EXCEPT !.ok = r.ok, !.some = r.some, !.index = r.index,
                                !.val = r.val, !.pos = r.inner.pos]
          [] l.op = "roll_die" ->
               LET r == roll_die(inner, l.sides, l.checks)
               IN  [base EXCEPT !.ok = r.ok, !.val = r.val, !.pos = r.inner.pos]
          [] l.op = "percentage" ->
               LET r == percentage(inner)
               IN  [base EXCEPT !.ok = r.ok, !.val = r.val, !.pos = r.inner.pos]
          [] l.op = "sample_multiple" ->
               LET r == sample_multiple(inner, l.slice, l.count)
               IN  [base EXCEPT !.out = r.out, !.pos = r.inner.pos]

IsDraw(l) == l.op \notin {"none", "new", "with_entropy", "reseed"}

SecureKinds == {"new", "reseed"}

SameBlock(c1, c2) ==
    c1.random_seed = c2.random_seed /\ c1.block_timestamp = c2.block_timestamp

OnlyCallerDiffers(c1, c2) ==
    /\ c1.predecessor_account_id # c2.predecessor_account_id
    /\ [c1 EXCEPT !.predecessor_account_id = c2.predecessor_account_id] = c2

\* C7: the generator's state and every draw are determined by the inputs of
\* its last seeding alone: they equal those of a generator freshly built from
\* these inputs (new() for a reseed) that has used the same number of words.
C7_DeterminedBySeedInputs ==
    rng.live
        => /\ rng.inner = Fresh(rng.origin, rng.inner.pos)
           /\ last.op \in {"new", "with_entropy", "reseed"}
                 => rng.inner = Fresh(rng.origin, 0)
           /\ IsDraw(last)
                 => Outcome(last, Fresh(rng.origin, last.before))
                       = Observed

C7_Witness ==
    /\ rng.live /\ rng.origin.kind = "reseed" /\ rng.origin.drawn
    /\ last.op = "shuffle" /\ Len(last.slice) = MaxLen /\ last.before > 0
    /\ last.out # last.slice

\* C8: two different transactions of one block (same VRF seed, same
\* timestamp) never obtain the same seed from SecureRng::new().
C8_DistinctSeedsWithinBlock ==
    [][ ( /\ rng.live /\ rng'.live
          /\ rng.origin.kind = "new" /\ rng'.origin.kind = "new"
          /\ rng'.origin.tx # rng.origin.tx
          /\ SameBlock(rng.origin.ctx, rng'.origin.ctx) )
        => rng'.inner.seed # rng.inner.seed ]_vars

\* C9: contexts that differ only in the predecessor account give different
\* seeds to new() and reseed(); a generator seeded again after the caller
\* changed gets another seed and starts its stream anew.
C9_CallerChangesSeed ==
    /\ [] ( (rng.live /\ rng.origin.kind \in SecureKinds)
              => \A p \in Accounts \ {rng.origin.ctx.predecessor_account_id} :
                    generate_secure_seed(
                        [rng.origin.ctx EXCEPT !.predecessor_account_id = p])
                      # rng.inner.seed )
    /\ [][ ( /\ rng.live /\ rng'.live
             /\ rng.origin.kind \in SecureKinds /\ rng'.origin.kind \in SecureKinds
             /\ OnlyCallerDiffers(rng.origin.ctx, rng'.origin.ctx) )
           => (rng'.inner.seed # rng.inner.seed /\ rng'.inner.pos = 0) ]_vars

C9_Witness ==
    /\ rng.live /\ rng.origin.kind = "reseed"
    /\ rng.origin.from = 1 /\ rng.origin.tx = 2 /\ rng.origin.drawn
    /\ OnlyCallerDiffers(InitContext, rng.origin.ctx)
    /\ rng.inner.seed # generate_secure_seed(InitContext)

\* C10: the seed of with_entropy depends on the caller: with the same extra
\* entropy, contexts that differ only in the predecessor give different seeds.
C10_WithEntropySeedDependsOnCaller ==
    [][ ( /\ rng.live /\ rng'.live
          /\ rng.origin.kind = "with_entropy" /\ rng'.origin.kind = "with_entropy"
          /\ rng.origin.extra = rng'.origin.extra
          /\ OnlyCallerDiffers(rng.origin.ctx, rng'.origin.ctx) )
        => rng'.inner.seed # rng.inner.seed ]_vars

\* C11: whatever enter_lottery, shuffle_participants, pick_winner and
\* reset_lottery calls came before, the names draw_multiple_winners returns
\* are pairwise distinct: no name appears twice in the returned list.
C11_DrawnWinnersDistinct ==
    last.op = "draw_multiple_winners" =>
        \A i, j \in DOMAIN last.out : i # j => last.out[i] # last.out[j]

\* the byte string that was hashed: what the hasher was updated with, in order
HashInput(digest) == SubSeq(digest, 2, Len(digest) - 1)

\* C12: two contexts with the same timestamp and the same prepaid gas but
\* different (contract identifier, caller identifier) pairs feed different
\* byte strings to the hash of get_transaction_entropy, also when the two
\* identifiers concatenate to the same bytes ("ab" + "cde", "abc" + "de").
C12_TransactionEntropyInjective ==
    [][ ( /\ last.op = "get_transaction_entropy"
          /\ last'.op = "get_transaction_entropy"
          /\ ctx'.block_timestamp = ctx.block_timestamp
          /\ ctx'.prepaid_gas = ctx.prepaid_gas
          /\ <<ctx'.current_account_id, ctx'.predecessor_account_id>>
                # <<ctx.current_account_id, ctx.predecessor_account_id>> )
        => HashInput(last'.out) # HashInput(last.out) ]_vars

====
